---- MODULE Spec2Model ----
(***************************************************************************)
(* State-machine model of the pinocchio-escrow program: the three          *)
(* instruction handlers make / take / refund (src/src/instructions), the   *)
(* dispatcher process_instruction (src/src/lib.rs) and the Escrow record   *)
(* (src/src/state/escrow.rs), run against a small ledger of accounts.      *)
(* The collaborators the handlers call by CPI (system program, token       *)
(* program, associated-token program) and the host's transaction boundary  *)
(* are modelled at the call sites that use them.                           *)
(***************************************************************************)
EXTENDS Integers, Sequences, FiniteSets, TLC

(***************************************************************************)
(* Bounds of the model.                                                    *)
(***************************************************************************)
\* instructions executed in one behaviour
MaxSteps == 4
\* largest amount_a / amount_b an Open may name (0 is always included)
MaxAmount == 1
\* instructions in one transaction
MaxTxLen == 2
\* the tokens the maker holds of asset A and the taker of asset B at the start
InitTokens == 2

(***************************************************************************)
(* Program and test constants, in abstract units.                          *)
(***************************************************************************)
\* Escrow::LEN, the size of the record
EscrowLen == 42
\* Rent::get()?.minimum_balance_unchecked(Escrow::LEN), in rent units
RentEscrow == 1
\* the deposit of a token account the associated-token program creates
RentToken == 2
\* the airdrop each user starts with
InitLamports == 10
\* make's payload length and the account counts of the three handlers
MakeDataLen == 18
MakeAccounts == 9
TakeAccounts == 11
RefundAccounts == 8

(***************************************************************************)
(* Addresses.  An address is a tuple whose first element names its kind;   *)
(* derived addresses are the tuple of their seeds, so that derivation is   *)
(* injective (no hash collisions).                                         *)
(***************************************************************************)
Users == {"alice", "bob"}
Mints == {"A", "B"}
Seeds == {1}
Bumps == {254, 255}
AuxIds == {1}

NoAddr == <<>>
UserAddr(u) == <<"user", u>>
MintAddr(m) == <<"mint", m>>
AuxAddr(n) == <<"aux", n>>

\* pinocchio_pubkey::derive_address_const(["escrow", maker, seed, bump], None, ID);
\* the runtime derives the address of a signer-seed list the same way.
derive_address(maker, seed, bump) == <<"pda", maker[2], seed, bump>>

\* get_associated_token_address(wallet, mint)
AtaAddr(wallet, mint) == <<"ata">> \o wallet \o <<mint[2]>>

UserAddrs == {UserAddr(u) : u \in Users}
MintAddrs == {MintAddr(m) : m \in Mints}
AuxAddrs == {AuxAddr(n) : n \in AuxIds}
PdaAddrs == {derive_address(UserAddr(u), s, b) : u \in Users, s \in Seeds, b \in Bumps}
Wallets == UserAddrs \cup PdaAddrs
AtaAddrs == {AtaAddr(w, m) : w \in Wallets, m \in MintAddrs}
TokenAddrs == AtaAddrs \cup AuxAddrs
Accounts == UserAddrs \cup PdaAddrs \cup TokenAddrs

Other(u) == CHOOSE v \in UserAddrs : v # u
OtherMint(m) == CHOOSE n \in MintAddrs : n # m

(***************************************************************************)
(* The ledger: per account its lamports and owning program, the Escrow     *)
(* data of the record accounts and the token-account data.                 *)
(***************************************************************************)
\* [u8; 8] <-> u64, little-endian (u64::to_le_bytes / u64::from_le_bytes)
RECURSIVE LeBytes(_, _)
LeBytes(n, k) == IF k = 0 THEN <<>> ELSE <<n % 256>> \o LeBytes(n \div 256, k - 1)
to_le_bytes(n) == LeBytes(n, 8)
RECURSIVE LeValue(_, _)
LeValue(b, i) == IF i > Len(b) THEN 0 ELSE b[i] + 256 * LeValue(b, i + 1)
from_le_bytes(b) == LeValue(b, 1)

\* the zero-initialized bytes of an account the program does not hold
NoEscrow == [mint_b |-> NoAddr, amount_b |-> to_le_bytes(0), seed |-> 0, bump |-> 0]
NoToken == [mint |-> NoAddr, owner |-> NoAddr, amount |-> 0]

OwnerOf(st, a) ==
  IF a \in MintAddrs THEN "token"
  ELSE IF a \in UserAddrs THEN "system"
  ELSE IF a \in DOMAIN st.own THEN st.own[a]
  ELSE "system"

\* data.len() of an account
DataLen(st, a) ==
  IF a \in PdaAddrs /\ st.own[a] = "escrow" THEN EscrowLen
  ELSE IF a \in TokenAddrs /\ st.own[a] = "token" THEN 165
  ELSE IF a \in MintAddrs THEN 82
  ELSE 0

Result(e, l, st) == [err |-> e, line |-> l, st |-> st]

(***************************************************************************)
(* The collaborators, at their interface.  `signers` is the set of         *)
(* addresses that sign the call: the transaction's signers passed through  *)
(* and the addresses the runtime derives from the caller's signer seeds.   *)
(***************************************************************************)
\* pinocchio_system CreateAccount { from, to, lamports, space, owner }
SystemCreateAccount(st, from, to, lamports, owner, signers) ==
  IF from \notin signers \/ to \notin signers
    THEN [err |-> "MissingRequiredSignature", st |-> st]
  ELSE IF st.lam[to] > 0 \/ OwnerOf(st, to) # "system"
    THEN [err |-> "AccountAlreadyInUse", st |-> st]
  ELSE IF st.lam[from] < lamports
    THEN [err |-> "InsufficientLamports", st |-> st]
  ELSE [err |-> "Ok",
        st |-> [st EXCEPT !.lam[from] = @ - lamports,
                          !.lam[to] = lamports,
                          !.own[to] = owner,
                          !.esc[to] = NoEscrow]]

\* pinocchio_associated_token_account Create { funding_account, account, wallet, mint }
AtaCreate(st, funding, account, wallet, mint, signers) ==
  IF account # AtaAddr(wallet, mint)
    THEN [err |-> "InvalidSeeds", st |-> st]
  ELSE IF OwnerOf(st, account) # "system"
    THEN [err |-> "IllegalOwner", st |-> st]
  ELSE IF funding \notin signers
    THEN [err |-> "MissingRequiredSignature", st |-> st]
  ELSE IF st.lam[funding] + st.lam[account] < RentToken
    THEN [err |-> "InsufficientLamports", st |-> st]
  ELSE [err |-> "Ok",
        st |-> [st EXCEPT !.lam[funding] = @ - (RentToken - st.lam[account]),
                          !.lam[account] = RentToken,
                          !.own[account] = "token",
                          !.tok[account] = [mint |-> mint, owner |-> wallet, amount |-> 0]]]

\* a transfer that does not compare the authority with the source's owner field
TokenTransferChecked_AnyAuthority(st, from, mint, to, authority, amount, signers) ==
  IF OwnerOf(st, from) # "token" \/ OwnerOf(st, to) # "token"
       \/ from \notin TokenAddrs \/ to \notin TokenAddrs
    THEN [err |-> "InvalidAccountData", st |-> st]
  ELSE IF st.tok[from].amount < amount
    THEN [err |-> "InsufficientFunds", st |-> st]
  ELSE IF st.tok[from].mint # st.tok[to].mint \/ st.tok[from].mint # mint
    THEN [err |-> "MintMismatch", st |-> st]
  ELSE IF authority \notin signers
    THEN [err |-> "MissingRequiredSignature", st |-> st]
  ELSE IF from = to
    THEN [err |-> "Ok", st |-> st]
  ELSE [err |-> "Ok",
        st |-> [st EXCEPT !.tok[from].amount = @ - amount,
                          !.tok[to].amount = @ + amount]]

\* pinocchio_token TransferChecked { from, mint, to, authority, amount, decimals }
TokenTransferChecked(st, from, mint, to, authority, amount, signers) ==
  IF OwnerOf(st, from) # "token" \/ OwnerOf(st, to) # "token"
       \/ from \notin TokenAddrs \/ to \notin TokenAddrs
    THEN [err |-> "InvalidAccountData", st |-> st]
  ELSE IF st.tok[from].amount < amount
    THEN [err |-> "InsufficientFunds", st |-> st]
  ELSE IF st.tok[from].mint # st.tok[to].mint \/ st.tok[from].mint # mint
    THEN [err |-> "MintMismatch", st |-> st]
  ELSE IF st.tok[from].owner # authority
    THEN [err |-> "OwnerMismatch", st |-> st]
  ELSE IF authority \notin signers
    THEN [err |-> "MissingRequiredSignature", st |-> st]
  ELSE IF from = to
    THEN [err |-> "Ok", st |-> st]
  ELSE [err |-> "Ok",
        st |-> [st EXCEPT !.tok[from].amount = @ - amount,
                          !.tok[to].amount = @ + amount]]

\* pinocchio_token CloseAccount { account, destination, authority }
TokenCloseAccount(st, account, destination, authority, signers) ==
  IF OwnerOf(st, account) # "token" \/ account \notin TokenAddrs
    THEN [err |-> "InvalidAccountData", st |-> st]
  ELSE IF account = destination
    THEN [err |-> "InvalidAccountData", st |-> st]
  ELSE IF st.tok[account].amount # 0
    THEN [err |-> "NonNativeHasBalance", st |-> st]
  ELSE IF st.tok[account].owner # authority
    THEN [err |-> "OwnerMismatch", st |-> st]
  ELSE IF authority \notin signers
    THEN [err |-> "MissingRequiredSignature", st |-> st]
  ELSE [err |-> "Ok",
        st |-> [st EXCEPT !.lam[destination] = @ + st.lam[account],
                          !.lam[account] = 0,
                          !.own[account] = "system",
                          !.tok[account] = NoToken]]

(***************************************************************************)
(* state/escrow.rs                                                         *)
(***************************************************************************)
\* Escrow::from_account_info_mut: the length check; the record is then the
\* account's bytes read as an Escrow.
EscrowLenOk(st, a) == DataLen(st, a) = EscrowLen

\* Escrow::set_inner
set_inner(st, a, mint_b, amount_b, seed, bump) ==
  [st EXCEPT !.esc[a] = [mint_b |-> mint_b, amount_b |-> amount_b,
                         seed |-> seed, bump |-> bump]]

\* the signers of a CPI: account 0 when it signed the transaction, and the
\* address of the signer seeds
TxSigners(ix, first) == IF ix.sig THEN {first} ELSE {}

(***************************************************************************)
(* instructions/make.rs                                                    *)
(***************************************************************************)
\* an amount check that rejects only when both amounts are zero
MakeAmountsOk_BothZero(ix) == ~(ix.amount_a = 0 /\ ix.amount_b = 0)

\* line 74: the amount check
MakeAmountsOk(ix) == ~(ix.amount_a = 0 \/ ix.amount_b = 0)

\* lines 79-81: the record address is the one derived from the payload
MakePdaOk(ix) == derive_address(ix.maker, ix.seed, ix.bump) = ix.escrow

\* line 58: the record and custodial slots are owned by the system program
MakeSlotsFree(st, ix) ==
  ~(OwnerOf(st, ix.escrow) # "system" \/ OwnerOf(st, ix.vault) # "system")

\* a record written with the nonce and the check byte exchanged
MakeRecord_Swapped(st, ix) ==
  set_inner(st, ix.escrow, ix.mint_b, to_le_bytes(ix.amount_b), ix.bump, ix.seed)

\* a record written with the offered asset as the wanted asset
MakeRecord_WantedA(st, ix) ==
  set_inner(st, ix.escrow, ix.mint_a, to_le_bytes(ix.amount_b), ix.seed, ix.bump)

\* line 96: what make writes into the record
MakeRecord(st, ix) ==
  set_inner(st, ix.escrow, ix.mint_b, to_le_bytes(ix.amount_b), ix.seed, ix.bump)

make(st, ix) ==
  IF ix.nacc < MakeAccounts THEN Result("NotEnoughAccountKeys", 38, st)
  ELSE IF ~ix.sig THEN Result("InvalidAccountOwner", 43, st)
  ELSE IF OwnerOf(st, ix.mint_a) # "token" \/ OwnerOf(st, ix.mint_b) # "token"
    THEN Result("InvalidAccountOwner", 48, st)
  ELSE IF OwnerOf(st, ix.maker_ata) # "token" THEN Result("InvalidAccountOwner", 54, st)
  ELSE IF ~MakeSlotsFree(st, ix) THEN Result("InvalidAccountOwner", 59, st)
  ELSE IF ix.dlen - 1 # MakeDataLen THEN Result("InvalidInstructionData", 64, st)
  ELSE IF ~MakeAmountsOk(ix) THEN Result("InvalidInstructionData", 75, st)
  ELSE IF ~MakePdaOk(ix) THEN Result("InvalidAccountOwner", 82, st)
  ELSE
    LET signers == TxSigners(ix, ix.maker)
                     \cup {derive_address(ix.maker, ix.seed, ix.bump)}
        c1 == SystemCreateAccount(st, ix.maker, ix.escrow, RentEscrow, "escrow", signers)
    IN IF c1.err # "Ok" THEN Result(c1.err, 94, c1.st)
       ELSE IF ~EscrowLenOk(c1.st, ix.escrow) THEN Result("InvalidAccountData", 95, c1.st)
       ELSE
         LET s2 == MakeRecord(c1.st, ix)
             c3 == AtaCreate(s2, ix.maker, ix.vault, ix.escrow, ix.mint_a,
                             TxSigners(ix, ix.maker))
         IN IF c3.err # "Ok" THEN Result(c3.err, 106, c3.st)
            ELSE
              LET c4 == TokenTransferChecked(c3.st, ix.maker_ata, ix.mint_a, ix.vault,
                                             ix.maker, ix.amount_a, TxSigners(ix, ix.maker))
              IN IF c4.err # "Ok" THEN Result(c4.err, 117, c4.st)
                 ELSE Result("Ok", 119, c4.st)

(***************************************************************************)
(* instructions/take.rs                                                    *)
(***************************************************************************)
\* a Settle that builds the seeds from the taker's address
TakeSeeds_Taker(st, ix) == <<ix.taker, st.esc[ix.escrow].seed, st.esc[ix.escrow].bump>>

\* lines 92 and 106: the seeds of the record address, used for the
\* re-derivation check and as the signer seeds of the custody CPIs
TakeSeeds(st, ix) == <<ix.maker, st.esc[ix.escrow].seed, st.esc[ix.escrow].bump>>

\* lines 93-94: the re-derived address equals the supplied record address
TakePdaOk(st, ix) ==
  LET s == TakeSeeds(st, ix) IN derive_address(s[1], s[2], s[3]) = ix.escrow

\* a Settle that checks the custodial account's asset id only
TakeVaultOk_MintOnly(st, ix) == st.tok[ix.vault].mint = ix.mint_a

\* lines 75-81: the custodial account's owner field and asset id
TakeVaultOk(st, ix) ==
  /\ st.tok[ix.vault].owner = ix.escrow
  /\ st.tok[ix.vault].mint = ix.mint_a

\* a Settle that accepts any asset-B descriptor
TakeMintBOk_Any(st, ix) == TRUE

\* lines 99-102: the supplied asset B is the one the record wants
TakeMintBOk(st, ix) == ~(ix.mint_b # st.esc[ix.escrow].mint_b)

\* line 104: the asset-B payment
TakeAmountB(st, ix) == from_le_bytes(st.esc[ix.escrow].amount_b)

\* line 117: the asset-A amount released
TakeAmountA(st, ix) == st.tok[ix.vault].amount

\* a Settle that leaves the record's lamports where they are
CloseEscrow_Keep(st, maker, escrow) == st

\* lines 137-140: the record's lamports go to the maker
CloseEscrow(st, maker, escrow) ==
  LET s1 == [st EXCEPT !.lam[maker] = @ + st.lam[escrow]]
  IN [s1 EXCEPT !.lam[escrow] = 0]

take(st, ix) ==
  IF ix.nacc < TakeAccounts THEN Result("NotEnoughAccountKeys", 39, st)
  ELSE IF ~ix.sig THEN Result("InvalidAccountOwner", 44, st)
  ELSE IF OwnerOf(st, ix.mint_a) # "token" \/ OwnerOf(st, ix.mint_b) # "token"
    THEN Result("InvalidAccountOwner", 49, st)
  ELSE IF \/ OwnerOf(st, ix.taker_ata_a) # "token"
          \/ OwnerOf(st, ix.taker_ata_b) # "token"
          \/ OwnerOf(st, ix.vault) # "token"
          \/ OwnerOf(st, ix.maker_ata_b) # "token"
    THEN Result("InvalidAccountOwner", 58, st)
  ELSE IF st.tok[ix.taker_ata_a].owner # ix.taker THEN Result("InvalidAccountData", 63, st)
  ELSE IF st.tok[ix.taker_ata_a].mint # ix.mint_a THEN Result("InvalidAccountData", 66, st)
  ELSE IF st.tok[ix.taker_ata_b].owner # ix.taker THEN Result("InvalidAccountData", 69, st)
  ELSE IF st.tok[ix.taker_ata_b].mint # ix.mint_b THEN Result("InvalidAccountData", 72, st)
  ELSE IF ~TakeVaultOk(st, ix)
    THEN Result("InvalidAccountData",
                IF st.tok[ix.vault].owner # ix.escrow THEN 77 ELSE 80, st)
  ELSE IF st.tok[ix.maker_ata_b].owner # ix.maker THEN Result("InvalidAccountData", 85, st)
  ELSE IF st.tok[ix.maker_ata_b].mint # ix.mint_b THEN Result("InvalidAccountData", 88, st)
  ELSE IF ~EscrowLenOk(st, ix.escrow) THEN Result("InvalidAccountData", 92, st)
  ELSE IF ~TakePdaOk(st, ix) THEN Result("InvalidAccountOwner", 96, st)
  ELSE IF ~TakeMintBOk(st, ix) THEN Result("InvalidAccountData", 101, st)
  ELSE
    LET seeds == TakeSeeds(st, ix)
        pda == {derive_address(seeds[1], seeds[2], seeds[3])}
        c1 == TokenTransferChecked(st, ix.taker_ata_b, ix.mint_b, ix.maker_ata_b,
                                   ix.taker, TakeAmountB(st, ix), TxSigners(ix, ix.taker))
    IN IF c1.err # "Ok" THEN Result(c1.err, 113, c1.st)
       ELSE
         LET c2 == TokenTransferChecked(c1.st, ix.vault, ix.mint_a, ix.taker_ata_a,
                                        ix.escrow, TakeAmountA(c1.st, ix),
                                        TxSigners(ix, ix.taker) \cup pda)
         IN IF c2.err # "Ok" THEN Result(c2.err, 126, c2.st)
            ELSE
              LET c3 == TokenCloseAccount(c2.st, ix.vault, ix.maker, ix.escrow,
                                          TxSigners(ix, ix.taker) \cup pda)
              IN IF c3.err # "Ok" THEN Result(c3.err, 135, c3.st)
                 ELSE Result("Ok", 142, CloseEscrow(c3.st, ix.maker, ix.escrow))

(***************************************************************************)
(* instructions/refund.rs                                                  *)
(***************************************************************************)
\* a Cancel that takes the maker of the seeds from the record address itself
RefundSeeds_FromRecord(st, ix) ==
  <<UserAddr(ix.escrow[2]), st.esc[ix.escrow].seed, st.esc[ix.escrow].bump>>

\* a Cancel that does not ask for the maker's signature
RefundSignerOk_Any(ix) == TRUE

\* lines 34-37: the maker signed
RefundSignerOk(ix) == ~(~ix.sig)

\* lines 66 and 79: the seeds of the record address
RefundSeeds(st, ix) == <<ix.maker, st.esc[ix.escrow].seed, st.esc[ix.escrow].bump>>

\* lines 67-68: the re-derived address equals the supplied record address
RefundPdaOk(st, ix) ==
  LET s == RefundSeeds(st, ix) IN derive_address(s[1], s[2], s[3]) = ix.escrow

\* lines 57-63: the custodial account's owner field and asset id
RefundVaultOk(st, ix) ==
  /\ st.tok[ix.vault].owner = ix.escrow
  /\ st.tok[ix.vault].mint = ix.mint_a

\* a Cancel that accepts any asset-B descriptor
RefundMintBOk_Any(st, ix) == TRUE

\* lines 73-76: the supplied asset B is the one the record wants
RefundMintBOk(st, ix) == ~(ix.mint_b # st.esc[ix.escrow].mint_b)

\* a Cancel that returns one unit, the amount every Open of the model deposits
RefundAmountA_AsOpened(st, ix) == MaxAmount

\* line 81: the asset-A amount returned
RefundAmountA(st, ix) == st.tok[ix.vault].amount

refund(st, ix) ==
  IF ix.nacc < RefundAccounts THEN Result("NotEnoughAccountKeys", 31, st)
  ELSE IF ~RefundSignerOk(ix) THEN Result("InvalidAccountOwner", 36, st)
  ELSE IF OwnerOf(st, ix.mint_a) # "token" \/ OwnerOf(st, ix.mint_b) # "token"
    THEN Result("InvalidAccountOwner", 41, st)
  ELSE IF OwnerOf(st, ix.maker_ata) # "token" \/ OwnerOf(st, ix.vault) # "token"
    THEN Result("InvalidAccountOwner", 46, st)
  ELSE IF st.tok[ix.maker_ata].owner # ix.maker THEN Result("InvalidAccountData", 51, st)
  ELSE IF st.tok[ix.maker_ata].mint # ix.mint_a THEN Result("InvalidAccountData", 54, st)
  ELSE IF ~RefundVaultOk(st, ix)
    THEN Result("InvalidAccountData",
                IF st.tok[ix.vault].owner # ix.escrow THEN 59 ELSE 62, st)
  ELSE IF ~EscrowLenOk(st, ix.escrow) THEN Result("InvalidAccountData", 66, st)
  ELSE IF ~RefundPdaOk(st, ix) THEN Result("InvalidAccountOwner", 70, st)
  ELSE IF ~RefundMintBOk(st, ix) THEN Result("InvalidAccountData", 75, st)
  ELSE
    LET seeds == RefundSeeds(st, ix)
        pda == {derive_address(seeds[1], seeds[2], seeds[3])}
        c1 == TokenTransferChecked(st, ix.vault, ix.mint_a, ix.maker_ata, ix.escrow,
                                   RefundAmountA(st, ix), TxSigners(ix, ix.maker) \cup pda)
    IN IF c1.err # "Ok" THEN Result(c1.err, 89, c1.st)
       ELSE
         LET c2 == TokenCloseAccount(c1.st, ix.vault, ix.maker, ix.escrow,
                                     TxSigners(ix, ix.maker) \cup pda)
         IN IF c2.err # "Ok" THEN Result(c2.err, 98, c2.st)
            ELSE Result("Ok", 105, CloseEscrow(c2.st, ix.maker, ix.escrow))

(***************************************************************************)
(* lib.rs and instructions/mod.rs: the dispatcher                          *)
(***************************************************************************)
\* a selector match whose default arm is MAKE
try_from_DefaultMake(discriminator) ==
  CASE discriminator = 1 -> "TAKE"
    [] discriminator = 2 -> "REFUND"
    [] OTHER -> "MAKE"

\* EscrowInstructions::try_from(&u8)
try_from(discriminator) ==
  CASE discriminator = 0 -> "MAKE"
    [] discriminator = 1 -> "TAKE"
    [] discriminator = 2 -> "REFUND"
    [] OTHER -> "InvalidInstructionData"

\* process_instruction: ix.dlen is the length of instruction_data, ix.disc its
\* first byte
process_instruction(st, ix) ==
  IF ix.dlen = 0 THEN Result("InvalidInstructionData", 34, st)
  ELSE
    LET op == try_from(ix.disc)
    IN CASE op = "MAKE" -> make(st, ix)
         [] op = "TAKE" -> take(st, ix)
         [] op = "REFUND" -> refund(st, ix)
         [] OTHER -> Result("InvalidInstructionData", 36, st)

(***************************************************************************)
(* Instructions: the account list and payload a caller submits.            *)
(***************************************************************************)
NoIx ==
  [disc |-> 0, dlen |-> 0, nacc |-> 0, sig |-> FALSE,
   taker |-> NoAddr, maker |-> NoAddr, mint_a |-> NoAddr, mint_b |-> NoAddr,
   maker_ata |-> NoAddr, taker_ata_a |-> NoAddr, taker_ata_b |-> NoAddr,
   vault |-> NoAddr, maker_ata_b |-> NoAddr, escrow |-> NoAddr,
   amount_a |-> 0, amount_b |-> 0, seed |-> 0, bump |-> 0]

\* the instruction test_make builds
MakeIx(maker, mint_a, mint_b, amount_a, amount_b, seed, bump) ==
  [NoIx EXCEPT !.disc = 0, !.dlen = 1 + MakeDataLen, !.nacc = MakeAccounts, !.sig = TRUE,
               !.maker = maker, !.mint_a = mint_a, !.mint_b = mint_b,
               !.maker_ata = AtaAddr(maker, mint_a),
               !.vault = AtaAddr(derive_address(maker, seed, bump), mint_a),
               !.escrow = derive_address(maker, seed, bump),
               !.amount_a = amount_a, !.amount_b = amount_b,
               !.seed = seed, !.bump = bump]

\* the instruction test_take builds
TakeIx(taker, maker, mint_a, mint_b, vault, escrow) ==
  [NoIx EXCEPT !.disc = 1, !.dlen = 1, !.nacc = TakeAccounts, !.sig = TRUE,
               !.taker = taker, !.maker = maker, !.mint_a = mint_a, !.mint_b = mint_b,
               !.taker_ata_a = AtaAddr(taker, mint_a),
               !.taker_ata_b = AtaAddr(taker, mint_b),
               !.vault = vault,
               !.maker_ata_b = AtaAddr(maker, mint_b),
               !.escrow = escrow]

\* the instruction test_refund builds
RefundIx(maker, mint_a, mint_b, vault, escrow) ==
  [NoIx EXCEPT !.disc = 2, !.dlen = 1, !.nacc = RefundAccounts, !.sig = TRUE,
               !.maker = maker, !.mint_a = mint_a, !.mint_b = mint_b,
               !.maker_ata = AtaAddr(maker, mint_a),
               !.vault = vault,
               !.escrow = escrow]

\* the asset the makers of the model offer, and the asset of the token accounts
\* the environment creates
AssetA == MintAddr("A")

\* Open: every well-formed instruction offering asset A, and the malformed
\* variants of those that want one unit
MakeBase ==
  {MakeIx(m, a, b, x, y, s, k) :
     m \in UserAddrs, a \in {AssetA}, b \in MintAddrs,
     x \in 0..MaxAmount, y \in 0..MaxAmount, s \in Seeds, k \in Bumps}

MakeVariants(b) ==
  {[b EXCEPT !.nacc = MakeAccounts - 1],
   [b EXCEPT !.sig = FALSE],
   [b EXCEPT !.dlen = MakeDataLen],
   [b EXCEPT !.dlen = 0],
   [b EXCEPT !.disc = 3],
   [b EXCEPT !.mint_b = Other(b.maker)],
   [b EXCEPT !.maker_ata = AtaAddr(Other(b.maker), b.mint_a)],
   [b EXCEPT !.escrow = derive_address(Other(b.maker), b.seed, b.bump)]}
  \cup {[b EXCEPT !.maker_ata = x] : x \in AuxAddrs}
  \cup {[b EXCEPT !.vault = x] : x \in AuxAddrs}

MakeInputs ==
  MakeBase \cup UNION {MakeVariants(b) : b \in {x \in MakeBase : x.amount_a <= 1 /\ x.amount_b = 1}}

\* Settle: every choice of taker, maker, assets and record, with the record's
\* associated custodial account or another token account as custody; and, for
\* the records that exist, the variants with one account replaced
TakeBase ==
  {TakeIx(t, m, a, b, v, e) :
     t \in UserAddrs, m \in UserAddrs, a \in MintAddrs, b \in MintAddrs,
     v \in AuxAddrs \cup {NoAddr}, e \in PdaAddrs}

TakeHonest(b) == IF b.vault = NoAddr THEN [b EXCEPT !.vault = AtaAddr(b.escrow, b.mint_a)] ELSE b

TakeVariants(b) ==
  {[b EXCEPT !.nacc = TakeAccounts - 1],
   [b EXCEPT !.sig = FALSE],
   [b EXCEPT !.taker_ata_a = AtaAddr(Other(b.taker), b.mint_a)],
   [b EXCEPT !.taker_ata_a = AtaAddr(b.taker, OtherMint(b.mint_a))],
   [b EXCEPT !.taker_ata_b = AtaAddr(Other(b.taker), b.mint_b)],
   [b EXCEPT !.taker_ata_b = AtaAddr(b.taker, OtherMint(b.mint_b))],
   [b EXCEPT !.maker_ata_b = AtaAddr(Other(b.maker), b.mint_b)],
   [b EXCEPT !.maker_ata_b = AtaAddr(b.maker, OtherMint(b.mint_b))],
   [b EXCEPT !.vault = AtaAddr(b.escrow, OtherMint(b.mint_a))],
   [b EXCEPT !.escrow = b.maker, !.vault = AtaAddr(b.maker, b.mint_a)]}
  \cup {[b EXCEPT !.vault = AtaAddr(e, b.mint_a)] : e \in PdaAddrs \ {b.escrow}}

TakeInputs(st) ==
  LET base == {TakeHonest(b) : b \in TakeBase}
  IN base \cup UNION {TakeVariants(b) :
                        b \in {x \in base : x.vault \notin AuxAddrs
                                              /\ OwnerOf(st, x.escrow) = "escrow"}}

\* Cancel, likewise
RefundBase ==
  {RefundIx(m, a, b, v, e) :
     m \in UserAddrs, a \in MintAddrs, b \in MintAddrs,
     v \in AuxAddrs \cup {NoAddr}, e \in PdaAddrs}

RefundVariants(b) ==
  {[b EXCEPT !.nacc = RefundAccounts - 1],
   [b EXCEPT !.sig = FALSE],
   [b EXCEPT !.maker_ata = AtaAddr(Other(b.maker), b.mint_a)],
   [b EXCEPT !.maker_ata = AtaAddr(b.maker, OtherMint(b.mint_a))],
   [b EXCEPT !.vault = AtaAddr(b.escrow, OtherMint(b.mint_a))],
   [b EXCEPT !.escrow = b.maker, !.vault = AtaAddr(b.maker, b.mint_a)]}
  \cup {[b EXCEPT !.vault = AtaAddr(e, b.mint_a)] : e \in PdaAddrs \ {b.escrow}}

RefundInputs(st) ==
  LET base == {TakeHonest(b) : b \in RefundBase}
  IN base \cup UNION {RefundVariants(b) :
                        b \in {x \in base : x.vault \notin AuxAddrs
                                              /\ OwnerOf(st, x.escrow) = "escrow"}}

(***************************************************************************)
(* The state.                                                              *)
(*   ledger   the accounts                                                 *)
(*   hist     per record address: how many Opens succeeded there, how many *)
(*            Settles/Cancels succeeded since the last one, the asset A of *)
(*            the last Open, the token balances that Open started from and *)
(*            the instruction of that Open                                 *)
(*   txstart  ledger and hist when the current transaction began           *)
(*   txlen    instructions executed in the current transaction             *)
(*   steps    instructions executed so far                                 *)
(*   last     the last step: its kind, result, the source line it          *)
(*            returned from, its instruction (when it succeeded), the      *)
(*            ledger it started from, the kind and record of the           *)
(*            instruction executed before it, and its position in its      *)
(*            transaction                                                  *)
(***************************************************************************)
VARIABLES ledger, hist, txstart, txlen, steps, last

vars == <<ledger, hist, txstart, txlen, steps, last>>

\* tests/test_helpers.rs setup_escrow_test: both users funded, their four
\* associated token accounts created, asset A minted to the maker and asset B
\* to the taker
InitLedger ==
  [lam |-> [a \in Accounts |->
              IF a \in UserAddrs THEN InitLamports
              ELSE IF \E u \in UserAddrs, m \in MintAddrs : a = AtaAddr(u, m) THEN RentToken
              ELSE 0],
   own |-> [a \in PdaAddrs \cup TokenAddrs |->
              IF \E u \in UserAddrs, m \in MintAddrs : a = AtaAddr(u, m) THEN "token"
              ELSE "system"],
   esc |-> [a \in PdaAddrs |-> NoEscrow],
   tok |-> [a \in TokenAddrs |->
              IF \E u \in UserAddrs, m \in MintAddrs : a = AtaAddr(u, m)
                THEN [mint |-> <<"mint", a[4]>>, owner |-> <<"user", a[3]>>,
                      amount |-> IF (a[3] = "alice" /\ a[4] = "A") \/ (a[3] = "bob" /\ a[4] = "B")
                                   THEN InitTokens ELSE 0]
              ELSE NoToken]]

Amounts(st) == [a \in TokenAddrs |-> st.tok[a].amount]

InitHist ==
  [e \in PdaAddrs |-> [opens |-> 0, closes |-> 0, mint_a |-> NoAddr,
                       pre |-> Amounts(InitLedger), open |-> NoIx]]

NoPrev == [op |-> "init", escrow |-> NoAddr]

\* the instruction executed before the next one: the last step, or the one
\* before it when the last step was a commit
Prev(l) == IF l.op = "commit" THEN l.prev ELSE [op |-> l.op, escrow |-> l.ix.escrow]

Init ==
  /\ ledger = InitLedger
  /\ hist = InitHist
  /\ txstart = [ledger |-> InitLedger, hist |-> InitHist]
  /\ txlen = 0
  /\ steps = 0
  /\ last = [op |-> "init", err |-> "Ok", line |-> 0, ix |-> NoIx,
             pre |-> InitLedger, prev |-> NoPrev, pos |-> 0]

\* a host that keeps what a failed instruction had written
Outcome_KeepPartial(res, start) == res.st

\* the host discards a transaction one of whose instructions failed
Outcome(res, start) == IF res.err = "Ok" THEN res.st ELSE start

\* what one instruction does on the current ledger: the accounts as the
\* handler left them when it returned, with the instruction itself when it
\* succeeds, the error and the line it returned from when it fails
Summary(ix) ==
  LET res == process_instruction(ledger, ix)
  IN [err |-> res.err, line |-> res.line, st |-> res.st,
      ix |-> IF res.err = "Ok" THEN ix ELSE NoIx]

\* The model follows a behaviour up to its first rejected instruction: the
\* host then discards the transaction, which returns the ledger to the state
\* the transaction started from, and that state is explored on its own.
Running == last.err = "Ok"

\* an instruction of the program, run by the host inside the current
\* transaction; h is hist after its success
Execute(op, o, h) ==
  LET ok == o.err = "Ok"
  IN /\ ledger' = Outcome([err |-> o.err, st |-> o.st], txstart.ledger)
     /\ hist' = IF ok THEN h ELSE txstart.hist
     /\ txlen' = IF ok THEN txlen + 1 ELSE 0
     /\ steps' = steps + 1
     /\ last' = [op |-> op, err |-> o.err, line |-> o.line, ix |-> o.ix, pre |-> ledger,
                 prev |-> Prev(last), pos |-> txlen]
     /\ UNCHANGED txstart

CanExecute == Running /\ txlen < MaxTxLen /\ steps < MaxSteps

Make ==
  /\ CanExecute
  /\ \E o \in {Summary(ix) : ix \in MakeInputs} :
    Execute("make", o,
            IF o.ix.escrow \in PdaAddrs
              THEN [hist EXCEPT ![o.ix.escrow] =
                      [opens |-> @.opens + 1, closes |-> 0, mint_a |-> o.ix.mint_a,
                       pre |-> Amounts(ledger), open |-> o.ix]]
              ELSE hist)

Take ==
  /\ CanExecute
  /\ \E o \in {Summary(ix) : ix \in TakeInputs(ledger)} :
    Execute("take", o,
            IF o.ix.escrow \in PdaAddrs
              THEN [hist EXCEPT ![o.ix.escrow].closes = @ + 1]
              ELSE hist)

Refund ==
  /\ CanExecute
  /\ \E o \in {Summary(ix) : ix \in RefundInputs(ledger)} :
    Execute("refund", o,
            IF o.ix.escrow \in PdaAddrs
              THEN [hist EXCEPT ![o.ix.escrow].closes = @ + 1]
              ELSE hist)

(***************************************************************************)
(* The environment: other instructions the host runs in a transaction.     *)
(***************************************************************************)
EnvStep(op, st) ==
  /\ ledger' = st
  /\ txlen' = txlen + 1
  /\ steps' = steps + 1
  /\ last' = [op |-> op, err |-> "Ok", line |-> 0, ix |-> NoIx, pre |-> ledger,
              prev |-> Prev(last), pos |-> txlen]
  /\ UNCHANGED <<hist, txstart>>

\* a user sends one token from an own account into a custodial account
\* (a token account whose owner field is a record address)
Deposit ==
  /\ CanExecute
  /\ \E from \in TokenAddrs, to \in TokenAddrs :
    /\ OwnerOf(ledger, from) = "token" /\ OwnerOf(ledger, to) = "token"
    /\ ledger.tok[from].owner \in UserAddrs
    /\ ledger.tok[to].owner \in PdaAddrs
    /\ LET r == TokenTransferChecked(ledger, from, ledger.tok[from].mint, to,
                                     ledger.tok[from].owner, 1, {ledger.tok[from].owner})
       IN r.err = "Ok" /\ EnvStep("deposit", r.st)

\* anyone creates a token account, outside the associated addresses, whose
\* owner field is a record address (token program InitializeAccount)
CreateTokenAccount ==
  /\ CanExecute
  /\ \E x \in AuxAddrs, e \in PdaAddrs, m \in {AssetA} :
    /\ OwnerOf(ledger, x) = "system"
    /\ EnvStep("create_token_account",
               [ledger EXCEPT !.lam[x] = RentToken, !.own[x] = "token",
                              !.tok[x] = [mint |-> m, owner |-> e, amount |-> 0]])

\* anyone sends lamports to a record address (litesvm airdrop, system transfer)
Airdrop ==
  /\ CanExecute
  /\ \E e \in PdaAddrs :
    /\ ledger.lam[e] = 0
    /\ EnvStep("airdrop", [ledger EXCEPT !.lam[e] = RentEscrow])

\* the host removes an account left without lamports when it commits
Purge(st) ==
  [st EXCEPT !.own = [a \in DOMAIN st.own |-> IF st.lam[a] = 0 THEN "system" ELSE st.own[a]],
             !.esc = [a \in DOMAIN st.esc |-> IF st.lam[a] = 0 THEN NoEscrow ELSE st.esc[a]],
             !.tok = [a \in DOMAIN st.tok |-> IF st.lam[a] = 0 THEN NoToken ELSE st.tok[a]]]

\* the transaction ends without a failure and is committed
Commit ==
  /\ Running
  /\ txlen > 0
  /\ ledger' = Purge(ledger)
  /\ txstart' = [ledger |-> Purge(ledger), hist |-> hist]
  /\ txlen' = 0
  /\ last' = [op |-> "commit", err |-> "Ok", line |-> 0, ix |-> NoIx, pre |-> ledger,
              prev |-> Prev(last), pos |-> txlen]
  /\ UNCHANGED <<hist, steps>>

Next ==
  \/ Make
  \/ Take
  \/ Refund
  \/ Deposit
  \/ CreateTokenAccount
  \/ Airdrop
  \/ Commit

Spec == Init /\ [][Next]_vars

(***************************************************************************)
(* The claims.                                                             *)
(***************************************************************************)
LastOk(op) == last.op = op /\ last.err = "Ok"

RECURSIVE SumOver(_, _)
SumOver(f, S) ==
  IF S = {} THEN 0
  ELSE LET x == CHOOSE y \in S : TRUE IN f[x] + SumOver(f, S \ {x})

\* what a party holds of an asset: the sum over the token accounts whose owner
\* field is the party and whose asset id is the asset
Holdings(st, party, mint) ==
  SumOver([a \in TokenAddrs |-> st.tok[a].amount],
          {a \in TokenAddrs : st.tok[a].owner = party /\ st.tok[a].mint = mint})

\* the supply of an asset: the sum over all its token accounts
Supply(st, mint) ==
  SumOver([a \in TokenAddrs |-> st.tok[a].amount],
          {a \in TokenAddrs : st.tok[a].mint = mint})

\* the maker whose address a record address derives from
Opener(e) == UserAddr(e[2])

\* a record is open from its Open until a Settle or Cancel succeeds on it
IsOpen(e) == hist[e].opens > 0 /\ hist[e].closes = 0

\* the custodial account Open created for the record at e
CustodyOf(e) == AtaAddr(e, hist[e].mint_a)

\* C1: after every successful Settle by a taker other than the maker, of an
\* offer of asset A for another asset B, the taker holds more asset A by
\* exactly the balance the record's custodial account held before the Settle,
\* the maker holds more asset B by exactly wanted_amount, the taker less asset B
\* by the same amount, and the supply of every asset is unchanged.
C1_SettleConservation ==
  (LastOk("take") /\ last.ix.taker # last.ix.maker /\ last.ix.mint_a # last.ix.mint_b) =>
    LET ix == last.ix
        pre == last.pre
        v == pre.tok[CustodyOf(ix.escrow)].amount
        b == from_le_bytes(pre.esc[ix.escrow].amount_b)
    IN /\ Holdings(ledger, ix.taker, ix.mint_a) = Holdings(pre, ix.taker, ix.mint_a) + v
       /\ Holdings(ledger, ix.maker, ix.mint_b) = Holdings(pre, ix.maker, ix.mint_b) + b
       /\ Holdings(ledger, ix.taker, ix.mint_b) = Holdings(pre, ix.taker, ix.mint_b) - b
       /\ \A m \in MintAddrs : Supply(ledger, m) = Supply(pre, m)

\* C2 as stated: on one open record at most one Settle or Cancel ever succeeds.
C2_AtMostOneClose == \A e \in PdaAddrs : hist[e].closes <= 1

\* C3 as stated: after a successful Settle or Cancel the record account has no
\* lamports and the custodial account Open created for it is closed and empty.
C3_CustodyClosed ==
  (LastOk("take") \/ LastOk("refund")) =>
    LET e == last.ix.escrow
    IN /\ ledger.lam[e] = 0
       /\ OwnerOf(ledger, CustodyOf(e)) = "system"
       /\ ledger.tok[CustodyOf(e)].amount = 0
       /\ ledger.lam[CustodyOf(e)] = 0

\* C4: no Settle or Cancel succeeds unless the supplied record address is the
\* address derived from the supplied maker and the nonce and check byte stored
\* in the record; so none succeeds that names a maker other than the opener.
C4_AddressBinding ==
  (LastOk("take") \/ LastOk("refund")) =>
    LET ix == last.ix
    IN /\ ix.escrow \in PdaAddrs
       /\ ix.escrow = <<"pda", ix.maker[2], last.pre.esc[ix.escrow].seed,
                        last.pre.esc[ix.escrow].bump>>
       /\ ix.maker = Opener(ix.escrow)

\* a Settle naming another maker than the opener reached the re-derivation
\* check and was rejected there
C4_Witness ==
  /\ last.op = "take"
  /\ last.err = "InvalidAccountOwner"
  /\ last.line = 96
  /\ \E ix \in TakeInputs(last.pre) :
       /\ ix.maker # Opener(ix.escrow)
       /\ take(last.pre, ix).line = 96

\* C5: the balance of a custodial account (a token account whose owner field
\* is a record address) decreases only in a successful Settle or Cancel of
\* that record.
C5_CustodyLeavesOnlyByClose ==
  last.err = "Ok" =>
    \A a \in TokenAddrs :
      (last.pre.tok[a].owner \in PdaAddrs /\ ledger.tok[a].amount < last.pre.tok[a].amount)
        => /\ LastOk("take") \/ LastOk("refund")
           /\ last.ix.escrow = last.pre.tok[a].owner

\* a Settle of one record while another record's custody holds asset A, which
\* it leaves alone
C5_Witness ==
  /\ LastOk("take")
  /\ last.pre.tok[last.ix.vault].amount > ledger.tok[last.ix.vault].amount
  /\ \E a \in TokenAddrs :
       /\ last.pre.tok[a].owner \in PdaAddrs \ {last.ix.escrow}
       /\ last.pre.tok[a].amount > 0
       /\ ledger.tok[a].amount = last.pre.tok[a].amount

C7_RoundTrip ==
  (LastOk("refund") /\ last.prev.op = "make" /\ last.prev.escrow = last.ix.escrow) =>
    LET e == last.ix.escrow
        a == hist[e].mint_a
    IN /\ ledger.tok[AtaAddr(Opener(e), a)].amount = hist[e].pre[AtaAddr(Opener(e), a)]
       /\ \A t \in TokenAddrs :
            (OwnerOf(last.pre, t) = "token" /\ last.pre.tok[t].mint # a)
              => ledger.tok[t].amount = hist[e].pre[t]

\* C8 as stated: for every (maker, nonce), over the whole behaviour, at most
\* one Open has succeeded.
C8_OpenAtMostOnce ==
  \A u \in Users, s \in Seeds :
    SumOver([k \in Bumps |-> hist[derive_address(UserAddr(u), s, k)].opens], Bumps) <= 1

\* C9: in every state the host runs an instruction in, an Open with amount_a = 0 or amount_b = 0 is
\* rejected, whatever its other inputs, and the handler has written nothing
\* when it returns; no Open that succeeded had a zero amount.
C9_ZeroAmountRejected ==
  /\ LastOk("make") => (last.ix.amount_a > 0 /\ last.ix.amount_b > 0)
  /\ LET zero == {b \in MakeBase : b.amount_a = 0 \/ b.amount_b = 0}
     IN Running =>
          \A ix \in zero \cup UNION {MakeVariants(b) : b \in zero} :
            LET res == process_instruction(ledger, ix)
            IN res.err # "Ok" /\ res.st = ledger

\* an Open that passed every check before the amount check and was rejected
\* there, leaving no record and no custodial account
C9_Witness ==
  /\ last.op = "make"
  /\ last.err = "InvalidInstructionData"
  /\ last.line = 75
  /\ ledger = last.pre
  /\ \E ix \in MakeBase :
       /\ ix.amount_a = 0 /\ ix.amount_b > 0
       /\ make(last.pre, ix).line = 75

\* the Cancel the maker of the record at e submits with the correct accounts
MakerRefund(e) ==
  RefundIx(Opener(e), hist[e].mint_a, ledger.esc[e].mint_b, CustodyOf(e), e)

\* C10: in every reachable state, for every open record, the Cancel its maker
\* submits with the correct accounts succeeds.
C10_CancelAvailable ==
  \A e \in PdaAddrs :
    IsOpen(e) => process_instruction(ledger, MakerRefund(e)).err = "Ok"

\* the maker's Cancel succeeded on a record another party had acted on since
\* its Open
C10_Witness ==
  /\ LastOk("refund")
  /\ last.ix.maker = Opener(last.ix.escrow)
  /\ last.ix.vault = CustodyOf(last.ix.escrow)
  /\ last.prev.op \in {"deposit", "airdrop", "create_token_account"}
  /\ hist[last.ix.escrow].closes = 1

\* C11: a Cancel succeeds only when account 0 signed and is the maker the
\* record address derives from; in every state the host runs an instruction
\* in, a Cancel naming any other identity, whatever its other accounts, is
\* rejected with every account, so every custodial balance, untouched.
C11_CancelOnlyByMaker ==
  /\ LastOk("refund") => (last.ix.sig /\ last.ix.maker = Opener(last.ix.escrow))
  /\ Running =>
       \A ix \in RefundInputs(ledger) :
         (ix.escrow \in PdaAddrs /\ (ix.maker # Opener(ix.escrow) \/ ~ix.sig)) =>
           LET res == process_instruction(ledger, ix)
           IN res.err # "Ok" /\ res.st = ledger

\* a signed Cancel of an open record by the other user, with that user's own
\* asset-A account and the record's custodial account, rejected at the
\* re-derivation check
C11_Witness ==
  /\ last.op = "refund"
  /\ last.err = "InvalidAccountOwner"
  /\ last.line = 70
  /\ \E ix \in RefundInputs(last.pre) :
       /\ ix.sig
       /\ ix.escrow \in PdaAddrs
       /\ IsOpen(ix.escrow)
       /\ ix.maker # Opener(ix.escrow)
       /\ ix.vault = CustodyOf(ix.escrow)
       /\ last.pre.tok[ix.vault].amount > 0
       /\ refund(last.pre, ix).line = 70

\* C12: in every successful Settle the asset-B descriptor is the record's
\* wanted asset, the account credited is of that asset and its owner field is
\* the maker the record address derives from, and no token account other than
\* that one and the taker's asset-A account gains anything.
C12_PaymentToMaker ==
  LastOk("take") =>
    LET ix == last.ix
        pre == last.pre
    IN /\ ix.mint_b = pre.esc[ix.escrow].mint_b
       /\ pre.tok[ix.maker_ata_b].mint = pre.esc[ix.escrow].mint_b
       /\ pre.tok[ix.maker_ata_b].owner = Opener(ix.escrow)
       /\ ix.taker_ata_b # ix.maker_ata_b =>
            /\ ledger.tok[ix.maker_ata_b].amount >=
                 pre.tok[ix.maker_ata_b].amount + from_le_bytes(pre.esc[ix.escrow].amount_b)
            /\ ix.taker_ata_b # ix.taker_ata_a =>
                 ledger.tok[ix.taker_ata_b].amount =
                   pre.tok[ix.taker_ata_b].amount - from_le_bytes(pre.esc[ix.escrow].amount_b)
       /\ \A t \in TokenAddrs :
            ledger.tok[t].amount > pre.tok[t].amount => t \in {ix.maker_ata_b, ix.taker_ata_a}

\* a Settle by another user that paid the wanted amount of asset B into the
\* maker's asset-B account
C12_Witness ==
  /\ LastOk("take")
  /\ last.ix.taker # last.ix.maker
  /\ last.ix.mint_b = MintAddr("B")
  /\ from_le_bytes(last.pre.esc[last.ix.escrow].amount_b) > 0
  /\ ledger.tok[last.ix.maker_ata_b].amount =
       last.pre.tok[last.ix.maker_ata_b].amount
         + from_le_bytes(last.pre.esc[last.ix.escrow].amount_b)

\* C13 as stated: a record slot holds a record only after a successful Open
\* there, and a Settle or Cancel succeeds only on a record that is open: one
\* that was opened and on which no Settle or Cancel has succeeded since.
C13_Lifecycle ==
  /\ \A e \in PdaAddrs : OwnerOf(ledger, e) = "escrow" => hist[e].opens > 0
  /\ (LastOk("take") \/ LastOk("refund")) =>
       /\ hist[last.ix.escrow].opens > 0
       /\ hist[last.ix.escrow].closes = 1
       /\ last.pre.lam[last.ix.escrow] > 0

\* the fields of the record at e are the ones its Open supplied
RecordAsOpened(e) ==
  /\ ledger.esc[e].mint_b = hist[e].open.mint_b
  /\ ledger.esc[e].amount_b = to_le_bytes(hist[e].open.amount_b)
  /\ ledger.esc[e].seed = hist[e].open.seed
  /\ ledger.esc[e].bump = hist[e].open.bump

\* C14: in every reachable state every open record has wanted_amount > 0 and
\* holds the wanted asset, wanted amount, nonce and check byte its Open
\* supplied; and no successful step other than the Open of a record changes
\* the fields of a record that is open after it.
C14_RecordImmutable ==
  \A e \in PdaAddrs :
    IsOpen(e) =>
      /\ OwnerOf(ledger, e) = "escrow"
      /\ from_le_bytes(ledger.esc[e].amount_b) > 0
      /\ RecordAsOpened(e)
      /\ (last.err = "Ok" /\ ~(last.op = "make" /\ last.ix.escrow = e))
           => ledger.esc[e] = last.pre.esc[e]

\* a record still open, with the fields of its Open, after the Settle of
\* another record
C14_Witness ==
  /\ LastOk("take")
  /\ \E e \in PdaAddrs \ {last.ix.escrow} :
       /\ IsOpen(e)
       /\ RecordAsOpened(e)
       /\ ledger.esc[e].mint_b \in MintAddrs

\* the preconditions of Open the claim lists, for a well-formed instruction
MakePreconditions(st, ix) ==
  /\ ix.sig
  /\ OwnerOf(st, ix.escrow) = "system" /\ OwnerOf(st, ix.vault) = "system"
  /\ ix.dlen - 1 = MakeDataLen
  /\ ix.amount_a > 0 /\ ix.amount_b > 0
  /\ ix.escrow = derive_address(ix.maker, ix.seed, ix.bump)
  /\ OwnerOf(st, ix.maker_ata) = "token"
  /\ st.tok[ix.maker_ata].owner = ix.maker
  /\ st.tok[ix.maker_ata].mint = ix.mint_a
  /\ st.tok[ix.maker_ata].amount >= ix.amount_a
  /\ st.lam[ix.maker] >= RentEscrow + RentToken

\* C15 as stated: in every state the host runs an instruction in, an Open
\* whose preconditions all hold succeeds, and then the record holds the wanted
\* asset, wanted amount, nonce and check byte supplied, the custodial account
\* holds exactly amount_a of asset A and the maker's asset-A account holds
\* amount_a less.
C15_OpenSucceeds ==
  Running =>
    \A ix \in MakeBase :
      MakePreconditions(ledger, ix) =>
        LET res == process_instruction(ledger, ix)
        IN /\ res.err = "Ok"
           /\ res.st.esc[ix.escrow] =
                [mint_b |-> ix.mint_b, amount_b |-> to_le_bytes(ix.amount_b),
                 seed |-> ix.seed, bump |-> ix.bump]
           /\ res.st.tok[ix.vault] =
                [mint |-> ix.mint_a, owner |-> ix.escrow, amount |-> ix.amount_a]
           /\ res.st.tok[ix.maker_ata].amount = ledger.tok[ix.maker_ata].amount - ix.amount_a

\* the structurally malformed instructions: a well-formed Open, Settle or
\* Cancel of asset A with empty data, an unknown selector, an Open payload one
\* byte short or one byte long, or one account too few
StructuralErrors ==
  LET makes == {b \in MakeBase : b.amount_a > 0 /\ b.amount_b > 0}
      all == makes
               \cup {TakeIx(t, m, AssetA, b, AtaAddr(e, AssetA), e) :
                       t \in UserAddrs, m \in UserAddrs, b \in MintAddrs, e \in PdaAddrs}
               \cup {RefundIx(m, AssetA, b, AtaAddr(e, AssetA), e) :
                       m \in UserAddrs, b \in MintAddrs, e \in PdaAddrs}
  IN {[b EXCEPT !.dlen = 0] : b \in all}
       \cup {[b EXCEPT !.disc = d] : b \in all, d \in {3, 255}}
       \cup {[b EXCEPT !.dlen = n] : b \in makes, n \in {MakeDataLen, MakeDataLen + 2}}
       \cup {[b EXCEPT !.nacc = @ - 1] : b \in all}

\* C16: in every state the host runs an instruction in, an instruction with
\* empty data, an unknown selector, an Open payload that is not 18 bytes, or
\* fewer than 9 / 11 / 8 accounts is rejected and the handler has changed no
\* account when it returns.
C16_StructuralErrors ==
  Running =>
    \A ix \in StructuralErrors :
      LET res == process_instruction(ledger, ix)
      IN res.err \in {"InvalidInstructionData", "NotEnoughAccountKeys", "InvalidAccountOwner"}
           /\ res.st = ledger

\* an Open that passed the account checks with a payload of the wrong length,
\* rejected there with nothing created
C16_Witness ==
  /\ last.op = "make"
  /\ last.err = "InvalidInstructionData"
  /\ last.line = 64
  /\ ledger = last.pre
  /\ \E ix \in StructuralErrors :
       /\ ix.disc = 0 /\ ix.dlen = MakeDataLen /\ ix.amount_a > 0 /\ ix.amount_b > 0
       /\ make(last.pre, ix).line = 64

\* the lamports of all accounts
TotalLamports(st) == SumOver(st.lam, DOMAIN st.lam)

\* C17 as stated: after a successful Settle or Cancel the maker's lamports
\* have grown by exactly the lamports the record's custodial account and the
\* record held before, neither of the two holds lamports any more, and the
\* lamports of all accounts together are unchanged.
C17_RentReturned ==
  (LastOk("take") \/ LastOk("refund")) =>
    LET e == last.ix.escrow
        maker == Opener(e)
        pre == last.pre
    IN /\ ledger.lam[maker] = pre.lam[maker] + pre.lam[CustodyOf(e)] + pre.lam[e]
       /\ ledger.lam[e] = 0
       /\ ledger.lam[CustodyOf(e)] = 0
       /\ TotalLamports(ledger) = TotalLamports(pre)

\* C18 as stated: a Settle or Cancel succeeds only when the supplied custodial
\* account is the one derived for (record address, asset A).
C18_VaultAddressChecked ==
  (LastOk("take") \/ LastOk("refund")) =>
    last.ix.vault = AtaAddr(last.ix.escrow, last.ix.mint_a)

\* the Opens, Settles and Cancels of the model, with the record's associated
\* custodial account or another token account as custody, without the
\* signature of account 0
Unsigned ==
  {[b EXCEPT !.sig = FALSE] :
     b \in MakeBase \cup {TakeHonest(x) : x \in TakeBase \cup RefundBase}}

\* C19: a successful Open or Cancel was signed by the maker account and a
\* successful Settle by the taker account; in every state the host runs an
\* instruction in, an Open, Settle or Cancel whose account 0 has not signed is
\* rejected and the handler has changed no account when it returns.
C19_SignerRequired ==
  /\ (LastOk("make") \/ LastOk("take") \/ LastOk("refund")) => last.ix.sig
  /\ Running =>
       \A ix \in Unsigned :
         LET res == process_instruction(ledger, ix)
         IN res.err # "Ok" /\ res.st = ledger

\* an unsigned Cancel of an open record, with the maker's accounts and the
\* record's custodial account, rejected at the signer check
C19_Witness ==
  /\ last.op = "refund"
  /\ last.err = "InvalidAccountOwner"
  /\ last.line = 36
  /\ ledger = last.pre
  /\ \E e \in PdaAddrs :
       /\ IsOpen(e)
       /\ last.pre.tok[CustodyOf(e)].amount > 0
       /\ refund(last.pre, [MakerRefund(e) EXCEPT !.sig = FALSE]).line = 36

\* a balance account whose owner field and asset id are the expected ones
Linked(st, account, owner, mint) ==
  /\ account \in TokenAddrs
  /\ OwnerOf(st, account) = "token"
  /\ st.tok[account].owner = owner
  /\ st.tok[account].mint = mint

TakeLinked(st, ix) ==
  /\ Linked(st, ix.taker_ata_a, ix.taker, ix.mint_a)
  /\ Linked(st, ix.taker_ata_b, ix.taker, ix.mint_b)
  /\ Linked(st, ix.vault, ix.escrow, ix.mint_a)
  /\ Linked(st, ix.maker_ata_b, ix.maker, ix.mint_b)

RefundLinked(st, ix) ==
  /\ Linked(st, ix.maker_ata, ix.maker, ix.mint_a)
  /\ Linked(st, ix.vault, ix.escrow, ix.mint_a)

\* C20: every successful Settle had its four balance accounts linked as
\* expected and every successful Cancel its two; in every state the host runs
\* an instruction in, a Settle or Cancel with a violated linkage is rejected
\* and the handler has changed no account when it returns.
C20_LinkageChecked ==
  /\ LastOk("take") => TakeLinked(last.pre, last.ix)
  /\ LastOk("refund") => RefundLinked(last.pre, last.ix)
  /\ Running =>
       /\ \A ix \in TakeInputs(ledger) :
            ~TakeLinked(ledger, ix) =>
              LET res == process_instruction(ledger, ix)
              IN res.err # "Ok" /\ res.st = ledger
       /\ \A ix \in RefundInputs(ledger) :
            ~RefundLinked(ledger, ix) =>
              LET res == process_instruction(ledger, ix)
              IN res.err # "Ok" /\ res.st = ledger

\* a Settle of an open record with the custodial account of another record,
\* every other account as expected, rejected at the custodial owner check
C20_Witness ==
  /\ last.op = "take"
  /\ last.err = "InvalidAccountData"
  /\ last.line = 77
  /\ ledger = last.pre
  /\ \E ix \in TakeInputs(last.pre) :
       /\ ix.escrow \in PdaAddrs
       /\ IsOpen(ix.escrow)
       /\ Linked(last.pre, ix.taker_ata_a, ix.taker, ix.mint_a)
       /\ Linked(last.pre, ix.taker_ata_b, ix.taker, ix.mint_b)
       /\ Linked(last.pre, ix.maker_ata_b, ix.maker, ix.mint_b)
       /\ OwnerOf(last.pre, ix.vault) = "token"
       /\ last.pre.tok[ix.vault].owner # ix.escrow
       /\ take(last.pre, ix).line = 77

\* the Settles and Cancels of the model with the record's associated custodial
\* account or another token account as custody
CloseBase == {TakeHonest(x) : x \in TakeBase \cup RefundBase}

\* C21: every successful Settle and Cancel named the asset B stored in the
\* record; in every state the host runs an instruction in, a Settle or Cancel
\* whose asset-B descriptor differs from the record's wanted asset is rejected
\* and the handler has transferred nothing when it returns.
C21_WantedAssetChecked ==
  /\ (LastOk("take") \/ LastOk("refund")) =>
       last.ix.mint_b = last.pre.esc[last.ix.escrow].mint_b
  /\ Running =>
       \A ix \in CloseBase :
         ix.mint_b # ledger.esc[ix.escrow].mint_b =>
           LET res == process_instruction(ledger, ix)
           IN res.err # "Ok" /\ res.st = ledger

\* the maker's Cancel of an open record, correct but for the asset-B descriptor,
\* rejected at the wanted-asset check
C21_Witness ==
  /\ last.op = "refund"
  /\ last.err = "InvalidAccountData"
  /\ last.line = 75
  /\ ledger = last.pre
  /\ \E e \in PdaAddrs :
       /\ IsOpen(e)
       /\ last.pre.tok[CustodyOf(e)].amount > 0
       /\ refund(last.pre, [MakerRefund(e) EXCEPT !.mint_b = OtherMint(@)]).line = 75

\* the precondition of Open whose check is at the given return line of make
MakeCheckAt(line) ==
  CASE line = 43 -> "signature"
    [] line \in {48, 54, 59} -> "ownership"
    [] line = 64 -> "payload length"
    [] line = 75 -> "zero amount"
    [] line = 82 -> "derivation"
    [] OTHER -> "other"

\* C22 as stated: two Opens rejected for different violated preconditions
\* (signature, ownership, payload length, zero amount, derivation) are
\* rejected with different error values.
C22_DistinctErrors ==
  Running =>
    \A ix1 \in MakeInputs, ix2 \in MakeInputs :
      LET r1 == process_instruction(ledger, ix1)
          r2 == process_instruction(ledger, ix2)
      IN (/\ r1.err # "Ok" /\ r2.err # "Ok"
          /\ MakeCheckAt(r1.line) # "other" /\ MakeCheckAt(r2.line) # "other"
          /\ MakeCheckAt(r1.line) # MakeCheckAt(r2.line))
           => r1.err # r2.err

\* the errors that report a failed check of an account's signature, ownership,
\* linkage, address or of the payload, as opposed to a lack of funds or an
\* occupied address found by the effect itself
ValidationErrors ==
  {"NotEnoughAccountKeys", "InvalidAccountOwner", "InvalidAccountData",
   "InvalidInstructionData", "MissingRequiredSignature", "OwnerMismatch",
   "MintMismatch", "InvalidSeeds", "IllegalOwner"}

\* C23 as stated: in every state the host runs an instruction in, an Open,
\* Settle or Cancel that returns a validation error has changed no account
\* when it returns.
C23_ValidationBeforeEffects ==
  Running =>
    \A ix \in MakeInputs \cup TakeInputs(ledger) \cup RefundInputs(ledger) :
      LET res == process_instruction(ledger, ix)
      IN res.err \in ValidationErrors => res.st = ledger

\* take.rs lines 104-142: the states a Settle that passed its checks goes
\* through: at entry, after the asset-B transfer, after the asset-A transfer,
\* after the custodial account's closing, after the record's lamports are zeroed
TakeSteps(st, ix) ==
  LET seeds == TakeSeeds(st, ix)
      signers == TxSigners(ix, ix.taker) \cup {derive_address(seeds[1], seeds[2], seeds[3])}
      s1 == TokenTransferChecked(st, ix.taker_ata_b, ix.mint_b, ix.maker_ata_b,
                                 ix.taker, TakeAmountB(st, ix), TxSigners(ix, ix.taker)).st
      s2 == TokenTransferChecked(s1, ix.vault, ix.mint_a, ix.taker_ata_a,
                                 ix.escrow, TakeAmountA(s1, ix), signers).st
      s3 == TokenCloseAccount(s2, ix.vault, ix.maker, ix.escrow, signers).st
  IN <<st, s1, s2, s3, CloseEscrow(s3, ix.maker, ix.escrow)>>

\* C24: a successful Settle goes through its effects in this order: the
\* asset-B payment to the maker while asset A and the lamports stay in place;
\* then the whole custodial balance to the taker, with the payment made and
\* the custodial account still open; then the closing of the custodial
\* account, which holds nothing at that point, its lamports going to the
\* maker; last the record's lamports are zeroed and credited to the maker.
C24_EffectOrder ==
  LastOk("take") =>
    LET st == last.pre
        ix == last.ix
        tr == TakeSteps(st, ix)
        b == TakeAmountB(st, ix)
        a == st.tok[ix.vault].amount
    IN /\ tr[5] = take(st, ix).st
       /\ ledger = tr[5]
       \* (1) the payment
       /\ ix.taker_ata_b # ix.maker_ata_b =>
            /\ tr[2].tok[ix.maker_ata_b].amount = st.tok[ix.maker_ata_b].amount + b
            /\ tr[2].tok[ix.taker_ata_b].amount = st.tok[ix.taker_ata_b].amount - b
       /\ ix.vault \notin {ix.taker_ata_b, ix.maker_ata_b}
       /\ \A t \in TokenAddrs \ {ix.taker_ata_b, ix.maker_ata_b} : tr[2].tok[t] = st.tok[t]
       /\ tr[2].lam = st.lam /\ tr[2].own = st.own /\ tr[2].esc = st.esc
       \* (2) the release
       /\ tr[3].tok[ix.vault].amount = 0
       /\ tr[3].tok[ix.taker_ata_a].amount = tr[2].tok[ix.taker_ata_a].amount + a
       /\ \A t \in TokenAddrs \ {ix.vault, ix.taker_ata_a} : tr[3].tok[t] = tr[2].tok[t]
       /\ tr[3].lam = st.lam /\ tr[3].own = st.own /\ tr[3].esc = st.esc
       \* (3) the closing
       /\ OwnerOf(tr[3], ix.vault) = "token" /\ OwnerOf(tr[4], ix.vault) = "system"
       /\ tr[4].tok = [tr[3].tok EXCEPT ![ix.vault] = NoToken]
       /\ tr[4].lam[ix.vault] = 0
       /\ tr[4].lam[ix.maker] = st.lam[ix.maker] + st.lam[ix.vault]
       /\ tr[4].lam[ix.escrow] = st.lam[ix.escrow]
       /\ tr[4].esc = st.esc
       \* (4) the record's lamports
       /\ tr[5].lam[ix.escrow] = 0
       /\ tr[5].lam[ix.maker] = tr[4].lam[ix.maker] + st.lam[ix.escrow]
       /\ tr[5].tok = tr[4].tok /\ tr[5].own = tr[4].own /\ tr[5].esc = tr[4].esc

\* a Settle of an open record by another party than the maker, with asset A
\* in custody and lamports in the record
C24_Witness ==
  /\ LastOk("take")
  /\ last.ix.escrow \in PdaAddrs /\ last.ix.vault = CustodyOf(last.ix.escrow)
  /\ last.ix.taker # last.ix.maker
  /\ last.pre.tok[last.ix.vault].amount > 0
  /\ last.pre.lam[last.ix.escrow] > 0
  /\ TakeAmountB(last.pre, last.ix) > 0
  /\ ledger.lam[last.ix.escrow] = 0

C26_ClosedStaysClosed ==
  Running =>
    \A ix \in TakeInputs(ledger) \cup RefundInputs(ledger) :
      (ix.escrow \in PdaAddrs /\ hist[ix.escrow].closes > 0)
        => process_instruction(ledger, ix).err # "Ok"

\* C27 as stated: in every reachable state, for every (maker, nonce), at most
\* one check byte has an open record at its address.
C27_OneOpenPerNonce ==
  \A u \in Users, s \in Seeds :
    Cardinality({k \in Bumps : IsOpen(derive_address(UserAddr(u), s, k))}) <= 1

====
